---------------------------- MODULE Spec2Model ----------------------------
(***************************************************************************)
(* Model of the twirp-tester template engine (protoparser.js, held in      *)
(* src/unnamed/part_000): the explicit-optional scanner, the template      *)
(* generator, the optional-field extractor and the method catalog builder. *)
(*                                                                         *)
(* A proto source is modelled by its declaration tree together with the    *)
(* line layout it is written in.  The text the scanner reads is the        *)
(* rendering of the tree in that layout, as lines of tokens; the schema    *)
(* the grammar parser (protobufjs) hands back is the reflection tree of    *)
(* the same declarations.  A dotted name ("a.b.c") is the sequence of its  *)
(* segments (<<"a","b","c">>): joining with '.' is concatenation, and two  *)
(* dotted strings are equal exactly when their segment sequences are.      *)
(***************************************************************************)
EXTENDS Naturals, Integers, Sequences, FiniteSets, TLC

(***************************************************************************)
(* Bounds.                                                                 *)
(***************************************************************************)
\* Capacity of the engine's call stack, counted in active frames of
\* generateEmptyJsonTemplate / extractOptionalFieldsRecursive: a call made
\* with this many frames active raises RangeError.
StackLimit == 4

(***************************************************************************)
(* JSON values.  Every value is a record of one shape, so that any two     *)
(* values can be compared: t is the JSON type, s the text of a scalar,     *)
(* kv the key/value pairs of an object in insertion order.                 *)
(***************************************************************************)
JStr(s)  == [t |-> "string", s |-> s,       kv |-> <<>>]
JFalse   == [t |-> "bool",   s |-> "false", kv |-> <<>>]
JZero    == [t |-> "number", s |-> "0",     kv |-> <<>>]
JArr     == [t |-> "array",  s |-> "",      kv |-> <<>>]
JObj(kv) == [t |-> "object", s |-> "",      kv |-> kv]
\* An exception in flight instead of a value (s names it).
Throw(s) == [t |-> "throw",  s |-> s,       kv |-> <<>>]

IsThrow(v) == v.t = "throw"

HasKey(obj, k) == \E i \in 1..Len(obj.kv) : obj.kv[i].k = k

\* obj[k]
GetKey(obj, k) ==
    LET i == CHOOSE j \in 1..Len(obj.kv) : obj.kv[j].k = k IN obj.kv[i].v

\* obj[k] = v on a JavaScript object: an existing key keeps its position.
PutKey(obj, k, v) ==
    IF HasKey(obj, k)
    THEN JObj([i \in 1..Len(obj.kv) |->
                 IF obj.kv[i].k = k THEN [k |-> k, v |-> v] ELSE obj.kv[i]])
    ELSE JObj(Append(obj.kv, [k |-> k, v |-> v]))

\* Object.keys(obj)
Keys(obj) == [i \in 1..Len(obj.kv) |-> obj.kv[i].k]

(***************************************************************************)
(* Declarations of a proto source.  One record shape for all kinds:        *)
(*   message: items = its fields, nested messages and nested enums         *)
(*   field:   rule ("", "optional", "repeated"), type (dotted name), num   *)
(*   enum:    items = its values;   value: name, num                       *)
(*   service: items = its rpcs;     rpc: type = request, aux = response    *)
(***************************************************************************)
Decl(kind, name, rule, type, aux, items, num) ==
    [kind |-> kind, name |-> name, rule |-> rule, type |-> type,
     aux |-> aux, items |-> items, num |-> num]

Message(name, items)        == Decl("message", name, "", <<>>, <<>>, items, 0)
Field(rule, type, name, num) == Decl("field", name, rule, type, <<>>, <<>>, num)
Enum(name, values)          == Decl("enum", name, "", <<>>, <<>>, values, 0)
Value(name, num)            == Decl("value", name, "", <<>>, <<>>, <<>>, num)
Service(name, rpcs)         == Decl("service", name, "", <<>>, <<>>, rpcs, 0)
\* package name; as the first declaration of a file
Package(name)               == Decl("package", name, "", <<>>, <<>>, <<>>, 0)
Rpc(name, req, resp)        == Decl("rpc", name, "", req, resp, <<>>, 0)

\* A one-segment name.
W(s) == <<s>>

(***************************************************************************)
(* The source text: lines of tokens.  A token is a dotted word (its        *)
(* segments) or a punctuation mark (one segment).                          *)
(***************************************************************************)
Layouts == {"expanded", "perdecl", "oneline"}

RECURSIVE Flatten(_)
Flatten(lines) ==
    IF lines = <<>> THEN <<>> ELSE Head(lines) \o Flatten(Tail(lines))

RECURSIVE RenderDecl(_, _)
RECURSIVE RenderItems(_, _)
\* The lines of one declaration.  "expanded": every declaration and every
\* closing brace on a line of its own.  "perdecl": the same, but an enum
\* declaration is written on one line.  "oneline": a whole top-level
\* declaration on one line.
RenderDecl(d, layout) ==
    CASE d.kind = "field" ->
           << (IF d.rule = "" THEN <<>> ELSE <<W(d.rule)>>)
              \o <<d.type, W(d.name), W("="), W(ToString(d.num)), W(";")>> >>
      [] d.kind = "value" ->
           << <<W(d.name), W("="), W(ToString(d.num)), W(";")>> >>
      [] d.kind = "rpc" ->
           << <<W("rpc"), W(d.name), W("("), d.type, W(")"),
                W("returns"), W("("), d.aux, W(")"), W(";")>> >>
      [] d.kind = "package" ->
           << <<W("package"), W(d.name), W(";")>> >>
      [] OTHER ->
           LET block == << <<W(d.kind), W(d.name), W("{")>> >>
                        \o RenderItems(d.items, layout)
                        \o << <<W("}")>> >>
           IN IF layout = "oneline" \/ (layout = "perdecl" /\ d.kind = "enum")
              THEN << Flatten(block) >>
              ELSE block

RenderItems(items, layout) ==
    IF items = <<>> THEN <<>>
    ELSE RenderDecl(Head(items), layout) \o RenderItems(Tail(items), layout)

\* A text cut short: the last token of the last line is missing.
Truncated(lines) ==
    [lines EXCEPT ![Len(lines)] = SubSeq(@, 1, Len(@) - 1)]

\* The text of a proto file: the syntax line, then its declarations; a
\* damaged file lacks the closing brace of its last declaration.
ProtoContent(file) ==
    IF file.damage = "unclosed"
    THEN Truncated(<< <<W("syntax"), W("="), W("\"proto3\""), W(";")>> >>
                   \o RenderItems(file.ast, file.layout))
    ELSE << <<W("syntax"), W("="), W("\"proto3\""), W(";")>> >>
         \o RenderItems(file.ast, file.layout)

(***************************************************************************)
(* parseExplicitOptionalFields: the line-oriented scan for the `optional`  *)
(* keyword.                                                                *)
(***************************************************************************)
Punct == {"{", "}", "=", ";", "(", ")", "//"}

\* \w+
IsWord(tok) == Len(tok) = 1 /\ tok[1] \notin Punct
\* [\w.]+
IsTypeRef(tok) == Len(tok) >= 1 /\ \A i \in 1..Len(tok) : tok[i] \notin Punct

\* (line.match(/{/g) || []).length, and the same for }
CountToken(line, s) == Cardinality({i \in 1..Len(line) : line[i] = W(s)})

\* trimmedLine.match(/^\s*message\s+(\w+)/)
MessageMatch(line) ==
    Len(line) >= 2 /\ line[1] = W("message") /\ line[2][1] \notin Punct

\* The positions where /optional\s+[\w.]+\s+(\w+)\s*=/ matches.
FieldMatches(line) ==
    {i \in 1..Len(line) :
        /\ i + 3 <= Len(line)
        /\ line[i] = W("optional")
        /\ IsTypeRef(line[i + 1])
        /\ IsWord(line[i + 2])
        /\ line[i + 3] = W("=")}

Min(S) == CHOOSE x \in S : \A y \in S : x <= y
Max(S) == CHOOSE x \in S : \A y \in S : x >= y

\* The body of the for loop for one line; st = [stack, depth, found].
ScanLine(st, line) ==
    IF line = <<>> \/ line[1] = W("//") THEN st
    ELSE
      LET pushed      == IF MessageMatch(line)
                         THEN Append(st.stack, line[2][1]) ELSE st.stack
          openBraces  == CountToken(line, "{")
          closeBraces == CountToken(line, "}")
          pops        == IF closeBraces <= Len(pushed)
                         THEN closeBraces ELSE Len(pushed)
          popped      == SubSeq(pushed, 1, Len(pushed) - pops)
          hits        == FieldMatches(line)
          found       == IF line[1] = W("optional") /\ hits # {}
                         THEN st.found \cup {popped \o line[Min(hits) + 2]}
                         ELSE st.found
      IN [stack |-> popped,
          depth |-> st.depth + openBraces - closeBraces,
          found |-> found]

RECURSIVE ScanLines(_, _)
ScanLines(st, lines) ==
    IF lines = <<>> THEN st
    ELSE ScanLines(ScanLine(st, Head(lines)), Tail(lines))

parseExplicitOptionalFields(protoContent) ==
    ScanLines([stack |-> <<>>, depth |-> 0, found |-> {}], protoContent).found

(***************************************************************************)
(* The schema protobuf.parse builds: the reflection tree of the            *)
(* declarations, under a root that was pre-seeded with                     *)
(* google.protobuf.Timestamp.  Reflection objects reuse the declaration    *)
(* record: kinds "namespace", "type", "enum", "service".                   *)
(***************************************************************************)
Null == Decl("null", "", "", <<>>, <<>>, <<>>, 0)

Namespace(name, items) == Decl("namespace", name, "", <<>>, <<>>, items, 0)

TimestampType == <<"google", "protobuf", "Timestamp">>

\* root.define('google.protobuf').add(new Type('Timestamp').add(...))
GoogleNamespace ==
    Namespace("google", <<
      Namespace("protobuf", <<
        Decl("type", "Timestamp", "", <<>>, <<>>,
             << Field("", W("int64"), "seconds", 1),
                Field("", W("int32"), "nanos", 2) >>, 0) >>) >>)

RECURSIVE Reflect(_)
\* The reflection objects of a sequence of declarations.  A field keeps its
\* type name as written; its rule is 'repeated' or unset (the parser drops
\* 'optional').
Reflect(items) ==
    [i \in 1..Len(items) |->
       LET d == items[i] IN
       CASE d.kind = "message" -> [d EXCEPT !.kind = "type", !.items = Reflect(d.items)]
         [] d.kind = "field"   -> [d EXCEPT !.rule = IF d.rule = "repeated"
                                                     THEN "repeated" ELSE ""]
         [] OTHER              -> d]

\* The reflection objects of a file: those of its declarations, inside the
\* namespace of its package when it names one.
ReflectFile(ast) ==
    IF ast # <<>> /\ Head(ast).kind = "package"
    THEN << Namespace(Head(ast).name, Reflect(Tail(ast))) >>
    ELSE Reflect(ast)

\* new protobuf.Root(), pre-seeded, after protobuf.parse(protoContent, root)
ParsedRoot(file) == Namespace("", <<GoogleNamespace>> \o ReflectFile(file.ast))

\* The grammar of a block: every brace that opens is closed.
RECURSIVE BraceBalance(_)
BraceBalance(lines) ==
    IF lines = <<>> THEN 0
    ELSE CountToken(Head(lines), "{") - CountToken(Head(lines), "}")
         + BraceBalance(Tail(lines))

\* What protobuf.parse throws on a text it rejects.
SyntaxError == Decl("error", "illegal token", "", <<>>, <<>>, <<>>, 0)

\* protobuf.parse(protoContent, root, { keepCase: true }): the root, or the
\* error thrown at the end of a text whose last block is not closed.
protobufParse(file) ==
    IF BraceBalance(ProtoContent(file)) # 0 THEN SyntaxError
    ELSE ParsedRoot(file)

\* field.resolvedType: null until the field is resolved, and nothing on the
\* path from protobuf.parse to the walk resolves fields.
resolvedType(field) == Null

\* type.fieldsArray
fieldsArray(type) == SelectSeq(type.items, LAMBDA d : d.kind = "field")
\* Object.values(namespace.nested || {})
nestedArray(ns) ==
    SelectSeq(ns.items,
              LAMBDA d : d.kind \in {"namespace", "type", "enum", "service"})
\* Object.values(service.methods)
methodsArray(service) == SelectSeq(service.items, LAMBDA d : d.kind = "rpc")

\* The first element of seq, Null when there is none.
HeadOrNull(seq) == IF seq = <<>> THEN Null ELSE Head(seq)

\* parentType.nested && parentType.nested[fieldType]: the key is the type
\* name as written, so only a one-segment name can be a key.
nestedOf(type, fieldType) ==
    IF Len(fieldType) # 1 THEN Null
    ELSE HeadOrNull(SelectSeq(nestedArray(type),
                              LAMBDA d : d.name = fieldType[1]))

\* instanceof protobuf.Namespace (Type and Service extend Namespace)
IsNamespace(obj) == obj.kind \in {"namespace", "type", "service"}

\* namespace.get(name): a type answers with a field of that name before a
\* nested object, a service with a method.
get(ns, name) ==
    HeadOrNull(SelectSeq(SelectSeq(ns.items,
                                   LAMBDA d : d.kind \in {"field", "rpc"})
                         \o nestedArray(ns),
                         LAMBDA d : d.name = name))

OrElse(found, otherwise) == IF found # Null THEN found ELSE otherwise

RECURSIVE lookup(_, _, _)
RECURSIVE lookupEach(_, _, _)

\* Namespace.lookup once the first path segment has been looked up in ns:
\* when it names something here, that object (if it is of a wanted kind) or
\* the rest of the path inside it; otherwise every nested namespace is
\* searched, in order.
lookupFound(found, ns, path, filterTypes) ==
    IF found # Null
    THEN IF Len(path) = 1
         THEN (IF found.kind \in filterTypes THEN found ELSE Null)
         ELSE (IF IsNamespace(found)
               THEN lookup(found, Tail(path), filterTypes) ELSE Null)
    ELSE lookupEach(nestedArray(ns), path, filterTypes)

\* Namespace.lookup(path, filterTypes) as called on the root (whose parent is
\* null) and, from there, on nested namespaces with the parent already
\* checked.
lookup(ns, path, filterTypes) ==
    IF path = <<>> THEN ns
    ELSE lookupFound(get(ns, path[1]), ns, path, filterTypes)

lookupEach(nested, path, filterTypes) ==
    IF nested = <<>> THEN Null
    ELSE OrElse(IF IsNamespace(Head(nested))
                THEN lookup(Head(nested), path, filterTypes) ELSE Null,
                lookupEach(Tail(nested), path, filterTypes))

\* Each throws when nothing is found: Null stands for the exception.
lookupType(root, path)       == lookup(root, path, {"type"})
lookupTypeOrEnum(root, path) == lookup(root, path, {"type", "enum"})
lookupEnum(root, path)       == lookup(root, path, {"enum"})

(***************************************************************************)
(* The template generator.  A result is [val, ex]: the value returned (or  *)
(* the exception thrown), and whether the call stack was exhausted         *)
(* anywhere below.                                                         *)
(***************************************************************************)
R(val, ex) == [val |-> val, ex |-> ex]

IntegerTypes == {"int32", "int64", "uint32", "uint64", "sint32", "sint64",
                 "fixed32", "fixed64", "sfixed32", "sfixed64"}
PrimitiveTypes == {"string", "bool", "float", "double", "bytes"} \cup IntegerTypes

IsPrimitive(fieldType) == Len(fieldType) = 1 /\ fieldType[1] \in PrimitiveTypes

\* The cases of the switch.  0.0 is the number 0.
PrimitiveDefault(name) ==
    CASE name = "string"       -> JStr("")
      [] name = "bool"         -> JFalse
      [] name \in IntegerTypes -> JZero
      [] name \in {"float", "double"} -> JZero
      [] name = "bytes"        -> JStr("")

\* Mutation of IsTimestamp: without the timestamp case the name resolves to
\* the message google.protobuf.Timestamp.
IsTimestampNever(fieldType) == FALSE

\* fieldType === 'google.protobuf.Timestamp'
IsTimestamp(fieldType) == fieldType = TimestampType

\* Mutation of FirstEnumValue: the name of the value with the smallest
\* number.
FirstEnumValueSmallest(enumType) ==
    LET nums == {enumType.items[i].num : i \in 1..Len(enumType.items)}
    IN IF nums = {} THEN JStr("")
       ELSE JStr((CHOOSE v \in {enumType.items[i] : i \in 1..Len(enumType.items)} :
                    \A n \in nums : v.num <= n).name)

\* const values = Object.keys(enumType.values);
\* return values.length > 0 ? values[0] : '';
\* (enum value names are identifiers, so the keys keep insertion order)
FirstEnumValue(enumType) ==
    LET values == [i \in 1..Len(enumType.items) |-> enumType.items[i].name]
    IN IF Len(values) > 0 THEN JStr(values[1]) ELSE JStr("")

\* Mutation of RepeatedOverride: a repeated field keeps the value of its
\* element type.
RepeatedOverrideNone(field, emptyValue) == emptyValue

\* if (isRepeated) emptyValue = [];
RepeatedOverride(field, emptyValue) ==
    IF field.rule = "repeated" THEN JArr ELSE emptyValue

\* The value when every lookup failed.
UnresolvedDefault == JStr("")

\* try { A } catch { B }: the outcome of A unless it threw, then of B.
Catch(tried, handler) ==
    IF IsThrow(tried.val) THEN R(handler.val, tried.ex \/ handler.ex)
    ELSE tried

RECURSIVE generateEmptyJsonTemplate(_, _, _)
RECURSIVE getEmptyValueForType(_, _, _, _)
RECURSIVE TemplateLoop(_, _, _, _, _)

\* const t = root.lookupType(name); return generateEmptyJsonTemplate(t);
\* lookupType throws when it finds nothing.
Generate(type, root, depth) ==
    IF type = Null THEN R(Throw("Error"), FALSE)
    ELSE generateEmptyJsonTemplate(type, root, depth)

\* The second try: root.lookupTypeOrEnum, which throws when it finds
\* nothing; a message type gets its template, an enum its first value.
SecondTry(found, root, depth) ==
    IF found.kind = "enum" THEN R(FirstEnumValue(found), FALSE)
    ELSE Generate(found, root, depth)

\* Mutation of ThirdTry: the failure of the last lookup is not caught.
ThirdTryThrows(enumType) ==
    IF enumType # Null THEN R(FirstEnumValue(enumType), FALSE)
    ELSE R(Throw("Error"), FALSE)

\* The third try: root.lookupEnum; when it throws, ''.
ThirdTry(enumType) ==
    R(IF enumType # Null THEN FirstEnumValue(enumType) ELSE UnresolvedDefault,
      FALSE)

\* Mutation of CustomValue: the global lookups come before the types nested
\* in the current message.
CustomValueGlobalFirst(nestedType, fieldType, root, depth) ==
    IF lookupTypeOrEnum(root, fieldType) # Null
    THEN Catch(Generate(lookupType(root, fieldType), root, depth + 1),
               Catch(SecondTry(lookupTypeOrEnum(root, fieldType), root, depth + 1),
                     ThirdTry(lookupEnum(root, fieldType))))
    ELSE CASE nestedType.kind = "type" ->
                generateEmptyJsonTemplate(nestedType, root, depth + 1)
           [] nestedType.kind = "enum" -> R(FirstEnumValue(nestedType), FALSE)
           [] OTHER -> R(UnresolvedDefault, FALSE)

\* Mutation of CustomValue: a name that is not a primitive is not looked up.
CustomValueFlat(nestedType, fieldType, root, depth) ==
    R(UnresolvedDefault, FALSE)

\* The default branch of the switch once the timestamp is excluded:
\* nestedType is parentType.nested[fieldType].
CustomValue(nestedType, fieldType, root, depth) ==
    CASE nestedType.kind = "type" ->
           generateEmptyJsonTemplate(nestedType, root, depth + 1)
      [] nestedType.kind = "enum" -> R(FirstEnumValue(nestedType), FALSE)
      [] OTHER ->
           Catch(Generate(lookupType(root, fieldType), root, depth + 1),
                 Catch(SecondTry(lookupTypeOrEnum(root, fieldType), root, depth + 1),
                       ThirdTry(lookupEnum(root, fieldType))))

getEmptyValueForType(fieldType, root, parentType, depth) ==
    IF IsPrimitive(fieldType) THEN R(PrimitiveDefault(fieldType[1]), FALSE)
    ELSE IF IsTimestamp(fieldType) THEN R(JStr(""), FALSE)
    ELSE CustomValue(nestedOf(parentType, fieldType), fieldType, root, depth)

\* template[fieldName] = emptyValue, unless computing emptyValue threw (or
\* the loop was already left by an exception).
AddField(template, field, emptyValue) ==
    IF IsThrow(template.val) THEN template
    ELSE IF IsThrow(emptyValue.val) THEN R(emptyValue.val, TRUE)
    ELSE R(PutKey(template.val, field.name,
                  RepeatedOverride(field, emptyValue.val)),
           template.ex \/ emptyValue.ex)

\* The for loop of generateEmptyJsonTemplate over the remaining fields.
TemplateLoop(fields, messageType, root, depth, template) ==
    IF fields = <<>> THEN template
    ELSE TemplateLoop(Tail(fields), messageType, root, depth,
           AddField(template, Head(fields),
                    getEmptyValueForType(Head(fields).type, root,
                                         messageType, depth)))

\* depth: the frames of generateEmptyJsonTemplate already on the call stack.
generateEmptyJsonTemplate(messageType, root, depth) ==
    IF depth >= StackLimit THEN R(Throw("RangeError"), TRUE)
    ELSE TemplateLoop(fieldsArray(messageType), messageType, root, depth,
                      R(JObj(<<>>), FALSE))

(***************************************************************************)
(* The optional-field extractor.  acc = [list, deep]: the paths pushed so  *)
(* far, and the deepest frame of extractOptionalFieldsRecursive entered.   *)
(***************************************************************************)
\* The message type the extractor descends into for a field: its resolved
\* type, else a type nested in the current message under the field's type
\* name; Null when there is none.
extractorTarget(type, field) ==
    IF resolvedType(field).kind = "type" THEN resolvedType(field)
    ELSE LET nestedType == nestedOf(type, field.type)
         IN IF nestedType.kind = "type" THEN nestedType ELSE Null

RECURSIVE extractOptionalFieldsRecursive(_, _, _, _, _, _)
RECURSIVE ExtractLoop(_, _, _, _, _, _, _)

RECURSIVE ExtractLoopPostOrder(_, _, _, _, _, _, _)
\* Mutation of ExtractLoop: the path of a field is pushed after the paths
\* found inside its message type.
ExtractLoopPostOrder(fields, type, fieldPrefix, typePrefix, explicitOptionalFields, depth, acc) ==
    IF fields = <<>> THEN acc
    ELSE
      LET field     == Head(fields)
          fieldPath == fieldPrefix \o <<field.name>>
          typePath  == typePrefix \o <<type.name, field.name>>
          target    == extractorTarget(type, field)
          inside    == IF target = Null \/ depth + 1 >= StackLimit THEN acc
                       ELSE extractOptionalFieldsRecursive(
                              target, fieldPath, typePrefix \o <<type.name>>,
                              explicitOptionalFields, depth + 1, acc)
          after     == IF typePath \in explicitOptionalFields
                       THEN [inside EXCEPT !.list = Append(inside.list, fieldPath)]
                       ELSE inside
      IN ExtractLoopPostOrder(Tail(fields), type, fieldPrefix, typePrefix,
                              explicitOptionalFields, depth, after)

\* The for loop over the remaining fields of type.
ExtractLoop(fields, type, fieldPrefix, typePrefix, explicitOptionalFields, depth, acc) ==
    IF fields = <<>> THEN acc
    ELSE
      LET field     == Head(fields)
          fieldPath == fieldPrefix \o <<field.name>>
          typePath  == typePrefix \o <<type.name, field.name>>
          pushed    == IF typePath \in explicitOptionalFields
                       THEN [acc EXCEPT !.list = Append(acc.list, fieldPath)]
                       ELSE acc
          target    == extractorTarget(type, field)
          \* a call with the stack full raises RangeError, which the catch
          \* around the call logs and drops
          after     == IF target = Null \/ depth + 1 >= StackLimit THEN pushed
                       ELSE extractOptionalFieldsRecursive(
                              target, fieldPath, typePrefix \o <<type.name>>,
                              explicitOptionalFields, depth + 1, pushed)
      IN ExtractLoop(Tail(fields), type, fieldPrefix, typePrefix,
                     explicitOptionalFields, depth, after)

extractOptionalFieldsRecursive(type, fieldPrefix, typePrefix, explicitOptionalFields, depth, acc) ==
    ExtractLoop(fieldsArray(type), type, fieldPrefix, typePrefix,
                explicitOptionalFields, depth,
                [acc EXCEPT !.deep = IF depth + 1 > @ THEN depth + 1 ELSE @])

getOptionalFieldsFromTypeWithExplicit(messageType, explicitOptionalFields) ==
    extractOptionalFieldsRecursive(messageType, <<>>, <<>>,
                                   explicitOptionalFields, 0,
                                   [list |-> <<>>, deep |-> 0])

(***************************************************************************)
(* The catalog walk shared by parseProtoContent and getOptionalFieldsMap.  *)
(***************************************************************************)
RECURSIVE WalkMethods(_)
\* The methods in the order the walk processes them: a service's methods,
\* else the walk of a nested object that has nested objects of its own.
WalkMethods(namespace) ==
    LET nested == nestedArray(namespace) IN
    IF nested = <<>> THEN <<>>
    ELSE LET n == Head(nested)
             here == IF n.kind = "service" THEN methodsArray(n)
                     ELSE IF nestedArray(n) # <<>> THEN WalkMethods(n)
                     ELSE <<>>
         IN here \o WalkMethods([namespace EXCEPT !.items = Tail(nested)])

\* Mutation of MethodTemplate: the failure of the lookup is not caught.
MethodTemplateRaises(root, method) ==
    Generate(lookupType(root, method.type), root, 0)

\* One method of parseProtoContent's walk: the template of its request
\* type, {} when the lookup or the generation throws.
MethodTemplate(root, method) ==
    Catch(Generate(lookupType(root, method.type), root, 0),
          R(JObj(<<>>), FALSE))

\* One method of getOptionalFieldsMap's walk: [] when the type is not found.
MethodOptionalFields(root, method, explicitOptionalFields) ==
    LET requestType == lookupType(root, method.type) IN
    IF requestType = Null THEN [list |-> <<>>, deep |-> 0]
    ELSE getOptionalFieldsFromTypeWithExplicit(requestType, explicitOptionalFields)

\* Mutation of PutTemplate: a name that has an entry keeps it.
PutTemplateKeepFirst(methodMap, methodName, jsonTemplate) ==
    IF HasKey(methodMap.val, methodName) THEN methodMap
    ELSE R(PutKey(methodMap.val, methodName, jsonTemplate.val),
           methodMap.ex \/ jsonTemplate.ex)

\* methodMap[methodName] = jsonTemplate
PutTemplate(methodMap, methodName, jsonTemplate) ==
    R(PutKey(methodMap.val, methodName, jsonTemplate.val),
      methodMap.ex \/ jsonTemplate.ex)

RECURSIVE TemplateMap(_, _, _)
\* The walk of parseProtoContent over the remaining methods.
TemplateMap(methods, root, methodMap) ==
    IF methods = <<>> THEN methodMap
    ELSE TemplateMap(Tail(methods), root,
                     PutTemplate(methodMap, Head(methods).name,
                                 MethodTemplate(root, Head(methods))))

RECURSIVE OptionalMapSkipping(_, _, _, _)
\* Mutation of OptionalMap: a method whose request type is not found gets
\* no entry.
OptionalMapSkipping(methods, root, explicitOptionalFields, acc) ==
    IF methods = <<>> THEN acc
    ELSE LET r == MethodOptionalFields(root, Head(methods), explicitOptionalFields)
         IN OptionalMapSkipping(Tail(methods), root, explicitOptionalFields,
              IF lookupType(root, Head(methods).type) = Null THEN acc
              ELSE [map  |-> PutKey(acc.map, Head(methods).name, r.list),
                    deep |-> IF r.deep > acc.deep THEN r.deep ELSE acc.deep])

RECURSIVE OptionalMap(_, _, _, _)
\* optionalFieldsMap[methodName] = optionalFields, for the remaining methods.
OptionalMap(methods, root, explicitOptionalFields, acc) ==
    IF methods = <<>> THEN acc
    ELSE LET r == MethodOptionalFields(root, Head(methods), explicitOptionalFields)
         IN OptionalMap(Tail(methods), root, explicitOptionalFields,
                        [map  |-> PutKey(acc.map, Head(methods).name, r.list),
                         deep |-> IF r.deep > acc.deep THEN r.deep ELSE acc.deep])

\* The nesting depth of a template: the frames of generateEmptyJsonTemplate
\* that were active to build it.
RECURSIVE Nesting(_)
Nesting(v) ==
    IF v.t # "object" THEN 0
    ELSE 1 + (IF v.kv = <<>> THEN 0
              ELSE Max({Nesting(v.kv[i].v) : i \in 1..Len(v.kv)}))

(***************************************************************************)
(* The proto sources the model is run on.                                  *)
(***************************************************************************)
Rules == {"", "optional", "repeated"}

StringType == W("string")

\* enum Kind / enum Color, with the numbers in declaration order or not.
EnumOrders == {"zeroFirst", "zeroSecond"}
KindEnum(order) ==
    Enum("Kind", IF order = "zeroFirst"
                 THEN <<Value("B", 0), Value("A", 1)>>
                 ELSE <<Value("B", 1), Value("A", 0)>>)
ColorEnum(order) ==
    Enum("Color", IF order = "zeroFirst"
                  THEN <<Value("RED", 0), Value("BLUE", 1)>>
                  ELSE <<Value("RED", 1), Value("BLUE", 0)>>)

OtherMessage ==
    Message("Other", << Field("optional", StringType, "id", 1),
                        Field("", W("Kind"), "kind", 2) >>)
PartMessage == Message("Part", << Field("optional", StringType, "x", 1) >>)

SvcCall(request) == Service("Svc", << Rpc("Call", request, W("Other")) >>)

\* The type names a field of Req is declared with: every primitive, the
\* timestamp, a nested message and enum, a global message and enum, the
\* enclosing message, two qualified names, and a name nothing declares.
FieldTypes ==
    {W(p) : p \in PrimitiveTypes}
    \cup {TimestampType, W("Part"), W("Color"), W("Other"), W("Kind"),
          W("Req"), <<"Req", "Part">>, <<"Req", "Color">>, W("Missing")}

\* message Req { message Part {..} string name = 1; <rule> <type> f = 2;
\*               bool flag = 3; enum Color {..} }
FieldProto(rule, type, order) ==
    << OtherMessage,
       KindEnum(order),
       Message("Req", << PartMessage,
                         Field("", StringType, "name", 1),
                         Field(rule, type, "f", 2),
                         Field("", W("bool"), "flag", 3),
                         ColorEnum(order) >>),
       SvcCall(W("Req")) >>

\* message Inner { optional string x = 1; } embedded twice in Outer, as a
\* and b; Inner at the top level or nested in Outer; Outer the request
\* type itself, or embedded in Req from the top level or as a nested type.
Places == {"top", "nested"}
OuterPlaces == {"request", "top", "nested"}
InnerMessage == Message("Inner", << Field("optional", StringType, "x", 1) >>)
OuterMessage(innerPlace) ==
    Message("Outer", (IF innerPlace = "nested" THEN <<InnerMessage>> ELSE <<>>)
                     \o << Field("", W("Inner"), "a", 1),
                           Field("", W("Inner"), "b", 2) >>)
EmbedProto(innerPlace, outerPlace) ==
    (IF innerPlace = "top" THEN <<InnerMessage>> ELSE <<>>)
    \o (IF outerPlace = "nested" THEN <<>> ELSE <<OuterMessage(innerPlace)>>)
    \o (IF outerPlace = "request" THEN <<>>
        ELSE << Message("Req",
                  (IF outerPlace = "nested"
                   THEN <<OuterMessage(innerPlace)>> ELSE <<>>)
                  \o << Field("", W("Outer"), "o", 1) >>) >>)
    \o << OtherMessage, KindEnum("zeroFirst"),
          SvcCall(IF outerPlace = "request" THEN W("Outer") ELSE W("Req")) >>

\* message M { string name = 1; optional int32 age = 2;
\*             repeated string tags = 3; enum Color {RED=0; BLUE=1;}
\*             Color favorite = 4; }
\* with the enum where it is written, or before the optional field.
EnumPositions == {"asWritten", "beforeOptional"}
ScenarioProto(enumPos) ==
    << Message("M",
         (IF enumPos = "beforeOptional" THEN <<ColorEnum("zeroFirst")>> ELSE <<>>)
         \o << Field("", StringType, "name", 1),
               Field("optional", W("int32"), "age", 2),
               Field("repeated", StringType, "tags", 3) >>
         \o (IF enumPos = "asWritten" THEN <<ColorEnum("zeroFirst")>> ELSE <<>>)
         \o << Field("", W("Color"), "favorite", 4) >>),
       OtherMessage, KindEnum("zeroFirst"),
       SvcCall(W("M")) >>

\* Type graphs with a cycle that is not a direct self reference: two
\* messages embedding each other, a message embedding itself twice, and a
\* message embedding itself through a nested type.
CycleShapes == {"mutual", "twice", "throughNested"}
CycleProto(shape, rule) ==
    (CASE shape = "mutual" ->
            << Message("Req", << Field(rule, W("Peer"), "peer", 1) >>),
               Message("Peer", << Field("optional", StringType, "x", 1),
                                  Field("", W("Req"), "back", 2) >>) >>
       [] shape = "twice" ->
            << Message("Req", << Field(rule, W("Req"), "left", 1),
                                 Field("optional", W("Req"), "right", 2) >>) >>
       [] shape = "throughNested" ->
            << Message("Req", << Message("Sub", << Field("optional", W("Req"), "back", 1) >>),
                                 Field(rule, W("Sub"), "s", 1) >>) >>)
    \o << OtherMessage, KindEnum("zeroFirst"), SvcCall(W("Req")) >>

\* message Req { <message or enum Dup> Dup f = 1; } next to a top-level
\* message or enum that is also called Dup and declares something else.
DupKinds == {"message", "enum"}
DupDecl(kind, member) ==
    IF kind = "message"
    THEN Message("Dup", << Field("optional", StringType, member, 1) >>)
    ELSE Enum("Dup", << Value(member, 0) >>)
ShadowProto(nestedKind, globalKind, rule) ==
    << DupDecl(globalKind, "g"),
       Message("Req", << DupDecl(nestedKind, "n"),
                         Field(rule, W("Dup"), "f", 1) >>),
       OtherMessage, KindEnum("zeroFirst"), SvcCall(W("Req")) >>

Asts ==
    {FieldProto(rule, type, order) :
        rule \in Rules, type \in FieldTypes, order \in EnumOrders}
    \cup {ShadowProto(nk, gk, rule) :
            nk \in DupKinds, gk \in DupKinds, rule \in Rules}
    \cup {EmbedProto(ip, op) : ip \in Places, op \in OuterPlaces}
    \cup {ScenarioProto(pos) : pos \in EnumPositions}
    \cup {CycleProto(shape, rule) : shape \in CycleShapes, rule \in Rules}

\* Two services: Alpha { rpc Call(<first>); rpc Put(ReqB); } and
\* Beta { rpc <name>(<second>); }, over ReqA { optional string a = 1; } and
\* ReqB { string b = 1; }; Nope is declared nowhere.  With or without a
\* package line.
RequestNames == {"ReqA", "ReqB", "Nope"}
SecondNames  == {"Call", "List"}
ReqAMessage == Message("ReqA", << Field("optional", StringType, "a", 1) >>)
ReqBMessage == Message("ReqB", << Field("", StringType, "b", 1) >>)
CatalogProto(first, second, name, packaged) ==
    (IF packaged THEN << Package("pkg") >> ELSE <<>>)
    \o << ReqAMessage, ReqBMessage,
           Service("Alpha", << Rpc("Call", W(first), W("ReqB")),
                               Rpc("Put", W("ReqB"), W("ReqB")) >>),
           Service("Beta", << Rpc(name, W(second), W("ReqB")) >>) >>

CatalogAsts ==
    {CatalogProto(first, second, name, packaged) :
        first \in RequestNames, second \in RequestNames,
        name \in SecondNames, packaged \in BOOLEAN}

Corpus ==
    [ast : Asts \cup CatalogAsts, layout : Layouts, damage : {"none"}]
    \cup [ast : CatalogAsts, layout : Layouts, damage : {"unclosed"}]

(***************************************************************************)
(* State: the uploaded file, the two promises of the exported functions,   *)
(* and the high-water marks of the call stack during the two walks.        *)
(***************************************************************************)
VARIABLES file, templates, optionals, callStack

engineVars == <<file, templates, optionals, callStack>>

\* The import set of one build and a call of its two hooks: the name asked
\* for, the file asking, what resolvePath returned and the promise of fetch.
VARIABLES importFiles, origin, asked, resolvedPath, fetched

importVars == <<importFiles, origin, asked, resolvedPath, fetched>>

\* The /api/parse-proto requests in flight: what each uploaded, where its
\* handler stands, the handler's local variables, and the response sent.
VARIABLES requests, pc, locals, responses

\* The upload of each request: the form it was sent as, its temporary
\* files still on disk, the temporary files fs.unlink was called for, and
\* the number of responses sent.
VARIABLES form, tempFiles, unlinked, sent

serverVars == <<requests, pc, locals, responses, form, tempFiles, unlinked, sent>>

\* Calls of generateEmptyJsonTemplate on their own: the root they read, the
\* name of the message type, and what the first and the second call return.
VARIABLES schema, typeName, firstCall, secondCall

generatorVars == <<schema, typeName, firstCall, secondCall>>

vars == <<engineVars, importVars, serverVars, generatorVars>>

\* No hook of an import set is being called.
NoImports ==
    /\ importFiles = <<>>
    /\ origin = <<>>
    /\ asked = <<>>
    /\ resolvedPath = <<>>
    /\ fetched = <<>>

\* The engine is not called on its own.
NoEngine ==
    /\ file = [ast |-> <<>>, layout |-> "expanded", damage |-> "none"]
    /\ templates = [state |-> "pending", value |-> JObj(<<>>)]
    /\ optionals = [state |-> "pending", value |-> JObj(<<>>)]
    /\ callStack = [exhausted |-> FALSE, templateDepth |-> 0, extractorDepth |-> 0]

\* generateEmptyJsonTemplate is not called on its own.
NoCalls ==
    /\ schema = <<>>
    /\ typeName = <<>>
    /\ firstCall = <<>>
    /\ secondCall = <<>>

\* No request is in flight.
NoRequests ==
    /\ requests = <<>>
    /\ pc = <<>>
    /\ locals = <<>>
    /\ responses = <<>>
    /\ form = <<>>
    /\ tempFiles = <<>>
    /\ unlinked = <<>>
    /\ sent = <<>>

Pending == [state |-> "pending", value |-> JObj(<<>>)]
Resolved(value) == [state |-> "resolved", value |-> value]
\* throw error;
Rejected(error) == [state |-> "rejected", value |-> Throw(error.name)]

Init ==
    /\ file \in Corpus
    /\ templates = Pending
    /\ optionals = Pending
    /\ callStack = [exhausted |-> FALSE, templateDepth |-> 0, extractorDepth |-> 0]
    /\ NoImports
    /\ NoRequests
    /\ NoCalls

\* The deepest template of a method map.
DeepestTemplate(methodMap) ==
    Max({0} \cup {Nesting(methodMap.kv[i].v) : i \in 1..Len(methodMap.kv)})

\* return methodMap;
ResolveTemplates(r) ==
    /\ templates' = Resolved(r.val)
    /\ callStack' = [callStack EXCEPT !.exhausted = r.ex,
                                      !.templateDepth = DeepestTemplate(r.val)]

TemplatesOf(root) == TemplateMap(WalkMethods(root), root, R(JObj(<<>>), FALSE))

\* From protobuf.parse to the end of parseProtoContent: an error thrown by
\* the parser is logged and thrown again.
BuildTemplates(root) ==
    IF root.kind = "error"
    THEN templates' = Rejected(root) /\ UNCHANGED callStack
    ELSE ResolveTemplates(TemplatesOf(root))

\* parseProtoContent(protoContent, importFiles)
parseProtoContent ==
    /\ templates.state = "pending"
    /\ BuildTemplates(protobufParse(file))
    /\ UNCHANGED <<file, optionals, importVars, serverVars, generatorVars>>

\* return optionalFieldsMap;
ResolveOptionals(r) ==
    /\ optionals' = Resolved(r.map)
    /\ callStack' = [callStack EXCEPT !.extractorDepth = r.deep]

OptionalsOf(root, explicitOptionalFields) ==
    OptionalMap(WalkMethods(root), root, explicitOptionalFields,
                [map |-> JObj(<<>>), deep |-> 0])

\* From protobuf.parse to the end of getOptionalFieldsMap.
BuildOptionals(root) ==
    IF root.kind = "error"
    THEN optionals' = Rejected(root) /\ UNCHANGED callStack
    ELSE ResolveOptionals(
           OptionalsOf(root, parseExplicitOptionalFields(ProtoContent(file))))

\* getOptionalFieldsMap(protoContent, importFiles)
getOptionalFieldsMap ==
    /\ optionals.state = "pending"
    /\ BuildOptionals(protobufParse(file))
    /\ UNCHANGED <<file, templates, importVars, serverVars, generatorVars>>

Next == parseProtoContent \/ getOptionalFieldsMap

Spec == Init /\ [][Next]_vars

(***************************************************************************)
(* Import resolution: the resolvePath and fetch hooks that                 *)
(* parseProtoContent and getOptionalFieldsMap install on the root.  A file *)
(* name and a file content are sequences of characters; the import set is  *)
(* a Map, modelled by its entries [k, v] in insertion order.               *)
(***************************************************************************)
\* Most entries an import set holds.
MaxImports == 2

\* str.endsWith(suffix)
endsWith(str, suffix) ==
    /\ Len(suffix) <= Len(str)
    /\ SubSeq(str, Len(str) - Len(suffix) + 1, Len(str)) = suffix

\* path.basename(p), for a name that does not end with a separator
basename(p) ==
    IF \E i \in 1..Len(p) : p[i] = "/"
    THEN SubSeq(p, Max({i \in 1..Len(p) : p[i] = "/"}) + 1, Len(p))
    ELSE p

\* The first entry of the Map that passes, as [found, k, v].
Found(entries) ==
    IF entries = <<>> THEN [found |-> FALSE, k |-> <<>>, v |-> <<>>]
    ELSE [found |-> TRUE, k |-> Head(entries).k, v |-> Head(entries).v]

\* importFiles.get(filename)
MapGet(map, filename) == Found(SelectSeq(map, LAMBDA e : e.k = filename))

\* return filename (the key matched), else return target
KeyOrTarget(hit, target) == IF hit.found THEN hit.k ELSE target

\* Mutation of resolvePath: only a key equal to the target is returned.
resolvePathExact(map, from, target) ==
    KeyOrTarget(MapGet(map, target), target)

\* root.resolvePath = function(origin, target) { ... }
resolvePath(map, from, target) ==
    KeyOrTarget(Found(SelectSeq(map, LAMBDA e : endsWith(e.k, target)
                                                \/ e.k = target)),
                target)

PromiseResolve(value) == [state |-> "resolved", value |-> value]
PromiseReject(error)  == [state |-> "rejected", value |-> error]
FileNotFound == <<"File not found">>

\* The loop of fetch over the entries, and its last line.
FetchByName(hit) ==
    IF hit.found THEN PromiseResolve(hit.v) ELSE PromiseReject(FileNotFound)

\* if (content) return Promise.resolve(content): undefined and the empty
\* text are both falsy.
FetchExact(content, map, filename) ==
    IF content.found /\ content.v # <<>> THEN PromiseResolve(content.v)
    ELSE FetchByName(Found(SelectSeq(map,
           LAMBDA e : endsWith(e.k, filename)
                      \/ basename(e.k) = basename(filename))))

\* root.fetch = function(filename) { ... }
fetch(map, filename) == FetchExact(MapGet(map, filename), map, filename)

\* File names: x, ax, d/x, e/x, y and d/y.
FileNames == { <<"x">>, <<"a", "x">>, <<"d", "/", "x">>, <<"e", "/", "x">>,
               <<"y">>, <<"d", "/", "y">> }

\* The contents a file is stored with: a text naming the file, or nothing.
ContentsOf(name) == { <<>>, <<"t", ":">> \o name }

\* The Maps over the file names, keys distinct, of 1..MaxImports entries.
RECURSIVE ImportSets(_)
ImportSets(n) ==
    IF n = 0 THEN { <<>> }
    ELSE ImportSets(n - 1)
         \cup {Append(m, [k |-> name, v |-> text]) :
                 m \in {q \in ImportSets(n - 1) : Len(q) = n - 1},
                 name \in FileNames, text \in UNION {ContentsOf(f) : f \in FileNames}}

WellFormedMap(m) ==
    /\ m # <<>>
    /\ \A i \in 1..Len(m) : m[i].v \in ContentsOf(m[i].k)
    /\ \A i, j \in 1..Len(m) : i # j => m[i].k # m[j].k

NotCalled == <<"not called">>

ImportInit ==
    /\ importFiles \in {m \in ImportSets(MaxImports) : WellFormedMap(m)}
    /\ origin \in { <<"m">>, <<"d", "/", "m">> }
    /\ asked \in FileNames
    /\ resolvedPath = NotCalled
    /\ fetched = [state |-> "pending", value |-> <<>>]
    /\ NoEngine
    /\ NoRequests
    /\ NoCalls

\* The loader calls root.resolvePath(origin, target).
CallResolvePath ==
    /\ resolvedPath = NotCalled
    /\ resolvedPath' = resolvePath(importFiles, origin, asked)
    /\ UNCHANGED <<importFiles, origin, asked, fetched, engineVars,
                   serverVars, generatorVars>>

\* The loader calls root.fetch(filename).
CallFetch ==
    /\ fetched.state = "pending"
    /\ fetched' = fetch(importFiles, asked)
    /\ UNCHANGED <<importFiles, origin, asked, resolvedPath,
                   engineVars, serverVars, generatorVars>>

ImportNext == CallResolvePath \/ CallFetch

ImportSpec == ImportInit /\ [][ImportNext]_vars

(***************************************************************************)
(* The /api/parse-proto handler of server.js.  A handler runs from one     *)
(* await to the next without interruption; between two awaits the handler  *)
(* of another request may run.                                             *)
(***************************************************************************)
\* Two requests in flight.
Requests == {1, 2}

\* req.files[0].originalname
MainName == <<"m">>

\* The files uploaded: one service or two, the request type declared or
\* not, and a text the grammar parser rejects.
Uploads ==
    [ast : {CatalogProto(first, second, name, FALSE) :
              first \in {"ReqA", "Nope"}, second \in {"ReqB"},
              name \in SecondNames},
     layout : {"expanded"}, damage : {"none"}]
    \cup [ast : {CatalogProto("ReqA", "ReqB", "List", FALSE)},
          layout : {"expanded"}, damage : {"unclosed"}]

\* No content.
NoFile == [ast |-> <<>>, layout |-> "expanded", damage |-> "none"]

\* An undefined property.
Absent == [t |-> "undefined", s |-> "", kv |-> <<>>]

\* The variables a handler declares (const uploadedFiles, mainContent,
\* methodMap, optionalFieldsMap, services) and the error it caught.
NewLocals ==
    [uploadedFiles |-> <<>>, mainContent |-> NoFile, methodMap |-> Absent,
     optionalFieldsMap |-> Absent, services |-> Absent, error |-> ""]

\* Mutation of Scope: the variables are declared at module level, one set
\* for every invocation.
ScopeOfModule(r) == 1

\* The scope the variables of the handler of request r live in: one per
\* invocation of the handler.
Scope(r) == r

\* uploadedFiles.set(name, content): an existing key keeps its position.
MapSet(map, name, content) ==
    IF \E i \in 1..Len(map) : map[i].k = name
    THEN [i \in 1..Len(map) |->
            IF map[i].k = name THEN [k |-> name, v |-> content] ELSE map[i]]
    ELSE Append(map, [k |-> name, v |-> content])

\* map[key] || fallback, for a map whose entries are objects or arrays
OrDefault(map, key, fallback) ==
    IF HasKey(map, key) THEN GetKey(map, key) ELSE fallback

\* Mutation of TemplatesSettled: an error of the grammar parser is absorbed
\* and an empty map returned.
TemplatesSettledEmpty(root) ==
    IF root.kind = "error" THEN Resolved(JObj(<<>>))
    ELSE Resolved(TemplatesOf(root).val)

\* The outcome of await parseProtoContent(mainContent, uploadedFiles), once
\* the grammar parser has returned root or thrown.
TemplatesSettled(root) ==
    IF root.kind = "error" THEN Rejected(root)
    ELSE Resolved(TemplatesOf(root).val)

\* The outcome of await getOptionalFieldsMap(mainContent, uploadedFiles).
OptionalsSettled(root, protoContent) ==
    IF root.kind = "error" THEN Rejected(root)
    ELSE Resolved(OptionalsOf(root, parseExplicitOptionalFields(protoContent)).map)

\* new protobuf.Root(); await protobuf.parse(protoContentForServices, ...)
serviceRootOf(content) ==
    IF BraceBalance(ProtoContent(content)) # 0 THEN SyntaxError
    ELSE Namespace("", ReflectFile(content.ast))

\* services[name].methods[methodName] = { ... }
MethodEntry(method, methodMap, optionalFieldsMap) ==
    [name |-> method.name, requestType |-> method.type,
     responseType |-> method.aux,
     jsonTemplate |-> OrDefault(methodMap, method.name, JObj(<<>>)),
     optionalFields |-> OrDefault(optionalFieldsMap, method.name, <<>>)]

RECURSIVE MethodEntries(_, _, _, _)
MethodEntries(methods, methodMap, optionalFieldsMap, entries) ==
    IF methods = <<>> THEN entries
    ELSE MethodEntries(Tail(methods), methodMap, optionalFieldsMap,
           PutKey(entries, Head(methods).name,
                  MethodEntry(Head(methods), methodMap, optionalFieldsMap)))

\* services[name] = { name, fullName, methods }
ServiceEntry(service, path, methodMap, optionalFieldsMap) ==
    [name |-> service.name, fullName |-> path \o <<service.name>>,
     methods |-> MethodEntries(methodsArray(service), methodMap,
                               optionalFieldsMap, JObj(<<>>))]

RECURSIVE extractServices(_, _, _, _, _)
\* extractServices(namespace, prefix) of the handler, over the remaining
\* nested objects; path is the full name of namespace.
extractServices(nested, path, methodMap, optionalFieldsMap, services) ==
    IF nested = <<>> THEN services
    ELSE extractServices(Tail(nested), path, methodMap, optionalFieldsMap,
           IF Head(nested).kind = "service"
           THEN PutKey(services, Head(nested).name,
                       ServiceEntry(Head(nested), path, methodMap,
                                    optionalFieldsMap))
           ELSE IF nestedArray(Head(nested)) # <<>>
           THEN extractServices(nestedArray(Head(nested)),
                                path \o <<Head(nested).name>>,
                                methodMap, optionalFieldsMap, services)
           ELSE services)

\* res.json({ services, methodTemplates, optionalFields, success: true })
OkResponse(l) ==
    [status |-> 200, success |-> TRUE, services |-> l.services,
     methodTemplates |-> l.methodMap, optionalFields |-> l.optionalFieldsMap,
     error |-> ""]

\* res.status(400).json({ error: error.message, success: false })
ErrorResponse(l) ==
    [status |-> 400, success |-> FALSE, services |-> Absent,
     methodTemplates |-> Absent, optionalFields |-> Absent,
     error |-> l.error]

NoResponse ==
    [status |-> 0, success |-> FALSE, services |-> Absent,
     methodTemplates |-> Absent, optionalFields |-> Absent, error |-> ""]

\* The multipart forms a request is sent as: no file, the main file, the
\* main file and a file it imports (all in the field protoFiles), or a
\* file in a field of another name.
Forms == {"none", "one", "two", "otherField"}

\* req.files, by position: what multer stored on disk for the handler.
FilesOf(kind) ==
    CASE kind = "one" -> {1}
      [] kind = "two" -> {1, 2}
      [] OTHER -> {}

\* The second file of an upload: its name and its content.
ImportName == <<"i">>
ImportFile == [ast |-> <<OtherMessage, KindEnum("zeroFirst")>>,
               layout |-> "expanded", damage |-> "none"]

\* The requests once multer has stored their files.
Received(kinds) ==
    /\ form = kinds
    /\ pc = [r \in Requests |-> "received"]
    /\ locals = [r \in Requests |-> NewLocals]
    /\ responses = [r \in Requests |-> NoResponse]
    /\ tempFiles = [r \in Requests |-> FilesOf(kinds[r])]
    /\ unlinked = [r \in Requests |-> {}]
    /\ sent = [r \in Requests |-> 0]

ServerInit ==
    /\ requests \in [Requests -> Uploads]
    /\ Received([r \in Requests |-> "one"])
    /\ NoEngine
    /\ NoImports
    /\ NoCalls

\* The handler of r moves on, with new values for its variables.
Goto(r, label, l) ==
    /\ pc' = [pc EXCEPT ![r] = label]
    /\ locals' = [locals EXCEPT ![Scope(r)] = l]

\* catch (error) { ... }
Caught(r, error) ==
    Goto(r, "failed", [locals[Scope(r)] EXCEPT !.error = error.s])

\* Lines 47-57: the Map of the uploaded files, the main file first and then
\* every file of req.files, the main one again.
FilesRead(r) ==
    IF form[r] = "two"
    THEN MapSet(MapSet(MapSet(<<>>, MainName, requests[r]),
                       MainName, requests[r]),
                ImportName, ImportFile)
    ELSE MapSet(MapSet(<<>>, MainName, requests[r]), MainName, requests[r])

\* Lines 39-76: without a main file the handler throws; otherwise the
\* uploaded files are read into a new Map; the common proto files are not
\* on disk, which is logged.
ReadUploads(r) ==
    /\ pc[r] = "received"
    /\ form[r] # "otherField"
    /\ IF form[r] = "none"
       THEN Caught(r, Throw("No proto file uploaded"))
       ELSE Goto(r, "read",
                 [NewLocals EXCEPT !.mainContent = requests[r],
                                   !.uploadedFiles = FilesRead(r)])
    /\ UNCHANGED <<requests, responses, form, tempFiles, unlinked, sent,
                   engineVars, importVars, generatorVars>>

SetMethodMap(r, promise) ==
    IF promise.state = "rejected" THEN Caught(r, promise.value)
    ELSE Goto(r, "templates",
              [locals[Scope(r)] EXCEPT !.methodMap = promise.value])

\* Line 80: const methodMap = await parseProtoContent(mainContent, ...)
AwaitTemplates(r) ==
    /\ pc[r] = "read"
    /\ SetMethodMap(r, TemplatesSettled(protobufParse(locals[Scope(r)].mainContent)))
    /\ UNCHANGED <<requests, responses, form, tempFiles, unlinked, sent,
                   engineVars, importVars, generatorVars>>

SetOptionalFieldsMap(r, promise) ==
    IF promise.state = "rejected" THEN Caught(r, promise.value)
    ELSE Goto(r, "optionals",
              [locals[Scope(r)] EXCEPT !.optionalFieldsMap = promise.value])

\* Line 84: const optionalFieldsMap = await getOptionalFieldsMap(...)
AwaitOptionals(r) ==
    /\ pc[r] = "templates"
    /\ SetOptionalFieldsMap(r,
         OptionalsSettled(protobufParse(locals[Scope(r)].mainContent),
                          ProtoContent(locals[Scope(r)].mainContent)))
    /\ UNCHANGED <<requests, responses, form, tempFiles, unlinked, sent,
                   engineVars, importVars, generatorVars>>

SetServices(r, serviceRoot) ==
    IF serviceRoot.kind = "error" THEN Caught(r, Throw(serviceRoot.name))
    ELSE Goto(r, "services",
              [locals[Scope(r)] EXCEPT
                 !.services = extractServices(nestedArray(serviceRoot), <<"">>,
                                              locals[Scope(r)].methodMap,
                                              locals[Scope(r)].optionalFieldsMap,
                                              JObj(<<>>))])

\* Lines 94-127: the main file is parsed again and the services are
\* combined with the two maps.
AwaitServices(r) ==
    /\ pc[r] = "optionals"
    /\ SetServices(r, serviceRootOf(MapGet(locals[Scope(r)].uploadedFiles,
                                           MainName).v))
    /\ UNCHANGED <<requests, responses, form, tempFiles, unlinked, sent,
                   engineVars, importVars, generatorVars>>

\* Mutation of UnlinkAll: fs.unlink is called for the main file only.
UnlinkMainOnly(r) ==
    /\ unlinked' = [unlinked EXCEPT ![r] = FilesOf(form[r]) \cap {1}]
    /\ \E kept \in SUBSET tempFiles[r] :
          tempFiles' = [tempFiles EXCEPT ![r] = kept \cup (tempFiles[r] \ {1})]

\* for (const file of req.files) await fs.unlink(file.path).catch(() => {}):
\* fs.unlink is called for every file; where it fails the file stays and
\* the rejection is dropped.
UnlinkAll(r) ==
    /\ unlinked' = [unlinked EXCEPT ![r] = FilesOf(form[r])]
    /\ \E kept \in SUBSET tempFiles[r] :
          tempFiles' = [tempFiles EXCEPT ![r] = kept]

\* Lines 132-134: the uploaded files are removed.
CleanUp(r) ==
    /\ pc[r] = "services"
    /\ pc' = [pc EXCEPT ![r] = "cleaned"]
    /\ UnlinkAll(r)
    /\ UNCHANGED <<requests, locals, responses, form, sent, engineVars,
                   importVars, generatorVars>>

\* Lines 152-154: the uploaded files are removed after an error.
CleanUpAfterError(r) ==
    /\ pc[r] = "failed"
    /\ pc' = [pc EXCEPT ![r] = "cleanedAfterError"]
    /\ UnlinkAll(r)
    /\ UNCHANGED <<requests, locals, responses, form, sent, engineVars,
                   importVars, generatorVars>>

\* res.json(...) / res.status(400).json(...): one more response is sent.
Send(r, response) ==
    /\ responses' = [responses EXCEPT ![r] = response]
    /\ sent' = [sent EXCEPT ![r] = @ + 1]

\* Lines 138-145
Respond(r) ==
    /\ pc[r] = "cleaned"
    /\ pc' = [pc EXCEPT ![r] = "responded"]
    /\ Send(r, OkResponse(locals[Scope(r)]))
    /\ UNCHANGED <<requests, locals, form, tempFiles, unlinked, engineVars,
                   importVars, generatorVars>>

\* Lines 156-159
RespondError(r) ==
    /\ pc[r] = "cleanedAfterError"
    /\ pc' = [pc EXCEPT ![r] = "responded"]
    /\ Send(r, ErrorResponse(locals[Scope(r)]))
    /\ UNCHANGED <<requests, locals, form, tempFiles, unlinked, engineVars,
                   importVars, generatorVars>>

ServerNext ==
    \E r \in Requests :
       \/ ReadUploads(r)
       \/ AwaitTemplates(r)
       \/ AwaitOptionals(r)
       \/ AwaitServices(r)
       \/ CleanUp(r)
       \/ CleanUpAfterError(r)
       \/ Respond(r)
       \/ RespondError(r)

ServerSpec == ServerInit /\ [][ServerNext]_vars

(***************************************************************************)
(* The route with its upload middleware, upload.array('protoFiles'), for   *)
(* every form a request can be sent as.  A file in a field of another name *)
(* makes multer pass an error to Express before the handler is called;     *)
(* no error-handling middleware is installed, so Express answers 500.      *)
(* The event loop runs every continuation that is ready.                   *)
(***************************************************************************)
\* The response of Express's default error handler: status 500, a body that
\* is not JSON (no success, no error property).
FrameworkError ==
    [status |-> 500, success |-> FALSE, services |-> Absent,
     methodTemplates |-> Absent, optionalFields |-> Absent, error |-> ""]

\* One upload the parser accepts and one it rejects.
UploadSample ==
    [ast : {CatalogProto("ReqA", "ReqB", "Call", FALSE)},
     layout : {"expanded"}, damage : {"none", "unclosed"}]

UploadInit ==
    /\ requests \in [Requests -> UploadSample]
    /\ \E kinds \in [Requests -> Forms] : Received(kinds)
    /\ NoEngine
    /\ NoImports
    /\ NoCalls

\* upload.array('protoFiles') rejects the request (MulterError, unexpected
\* field): the handler is not called and the framework answers.
RejectUpload(r) ==
    /\ pc[r] = "received"
    /\ form[r] = "otherField"
    /\ pc' = [pc EXCEPT ![r] = "responded"]
    /\ Send(r, FrameworkError)
    /\ UNCHANGED <<requests, locals, form, tempFiles, unlinked, engineVars,
                   importVars, generatorVars>>

UploadNext ==
    \E r \in Requests :
       \/ RejectUpload(r)
       \/ ReadUploads(r)
       \/ AwaitTemplates(r)
       \/ AwaitOptionals(r)
       \/ AwaitServices(r)
       \/ CleanUp(r)
       \/ CleanUpAfterError(r)
       \/ Respond(r)
       \/ RespondError(r)

\* No request has a step left: every label but "responded" has one, guarded
\* by the label alone.
AllResponded == \A r \in Requests : pc[r] = "responded"

\* The event loop runs every pending continuation: weak fairness of
\* UploadNext.  ENABLED <<UploadNext>>_vars is written out as ~AllResponded,
\* so the condition reads "always eventually nothing is pending, or always
\* eventually a step is taken".
EventLoopRuns == ([]<>AllResponded) \/ ([]<><<UploadNext>>_vars)

UploadSpec == UploadInit /\ [][UploadNext]_vars /\ EventLoopRuns

(***************************************************************************)
(* generateEmptyJsonTemplate called twice on one message type of a parsed  *)
(* root.  Each call starts with some frames already on the call stack:     *)
(* how much stack is left for it is decided by the caller and the engine,  *)
(* not by the function.                                                    *)
(***************************************************************************)
MaxFrames == 1

\* The names of the message types declared at the top level of a file.
TopLevelTypes(ast) ==
    {W(ast[i].name) : i \in {j \in 1..Len(ast) : ast[j].kind = "message"}}

NotReturned == [state |-> "pending", frames |-> 0, value |-> JObj(<<>>)]

\* return template;
Returned(frames, template) ==
    [state |-> "returned", frames |-> frames, value |-> template.val]

GeneratorInit ==
    /\ file \in [ast : Asts, layout : {"expanded"}, damage : {"none"}]
    /\ templates = [state |-> "pending", value |-> JObj(<<>>)]
    /\ optionals = [state |-> "pending", value |-> JObj(<<>>)]
    /\ callStack = [exhausted |-> FALSE, templateDepth |-> 0, extractorDepth |-> 0]
    /\ schema = ParsedRoot(file)
    /\ typeName \in TopLevelTypes(file.ast)
    /\ firstCall = NotReturned
    /\ secondCall = NotReturned
    /\ NoImports
    /\ NoRequests

\* generateEmptyJsonTemplate(root.lookupType(typeName)): nothing in the
\* function or in getEmptyValueForType assigns to the type or to the root.
CallFirst ==
    /\ firstCall.state = "pending"
    /\ \E frames \in 0..MaxFrames :
          firstCall' = Returned(frames,
                         generateEmptyJsonTemplate(lookupType(schema, typeName),
                                                   schema, frames))
    /\ UNCHANGED <<schema, typeName, secondCall, engineVars, importVars,
                   serverVars>>

\* The same call once more.
CallSecond ==
    /\ firstCall.state = "returned"
    /\ secondCall.state = "pending"
    /\ \E frames \in 0..MaxFrames :
          secondCall' = Returned(frames,
                          generateEmptyJsonTemplate(lookupType(schema, typeName),
                                                    schema, frames))
    /\ UNCHANGED <<schema, typeName, firstCall, engineVars, importVars,
                   serverVars>>

GeneratorNext == CallFirst \/ CallSecond

GeneratorSpec == GeneratorInit /\ [][GeneratorNext]_vars

(***************************************************************************)
(* Properties.  Every file of the corpus declares one service with one     *)
(* method, Call.  The properties read the schema as it is declared (the    *)
(* declaration tree of the file) and compare it with what the two          *)
(* exported functions returned.                                            *)
(***************************************************************************)
Done == templates.state = "resolved" /\ optionals.state = "resolved"

CallTemplate  == GetKey(templates.value, "Call")
CallOptionals == GetKey(optionals.value, "Call")

\* The declaration named name among items.
DeclNamed(items, name) ==
    HeadOrNull(SelectSeq(items, LAMBDA d : d.kind \in {"message", "enum"}
                                           /\ d.name = name))

\* The message the method Call takes.
RequestDecl ==
    DeclNamed(file.ast,
              HeadOrNull(SelectSeq(file.ast, LAMBDA d : d.kind = "service"))
                .items[1].type[1])

\* What a field type written in message parent names: a declaration nested
\* in parent, else a top-level one, else (Outer.Inner) one nested in a
\* top-level message; Null when nothing is declared under the name.
Declared(parent, type) ==
    CASE Len(type) = 1 ->
           OrElse(DeclNamed(parent.items, type[1]), DeclNamed(file.ast, type[1]))
      [] Len(type) = 2 ->
           DeclNamed(DeclNamed(file.ast, type[1]).items, type[2])
      [] OTHER -> Null

FieldNames(decl) ==
    [i \in 1..Len(fieldsArray(decl)) |-> fieldsArray(decl)[i].name]

RECURSIVE Occurrences(_, _)
\* Every field occurrence of a template, at every nesting level: the field
\* as declared, the message declaring it, and the value the template holds.
Occurrences(template, decl) ==
    LET fields == fieldsArray(decl)
        here == {[field |-> fields[i], parent |-> decl,
                  value |-> GetKey(template, fields[i].name)] :
                   i \in {j \in 1..Len(fields) : HasKey(template, fields[j].name)}}
    IN here \cup
       UNION {IF o.value.t = "object"
                 /\ Declared(decl, o.field.type).kind = "message"
              THEN Occurrences(o.value, Declared(decl, o.field.type))
              ELSE {} : o \in here}

TemplateOccurrences ==
    IF templates.state = "resolved"
    THEN Occurrences(CallTemplate, RequestDecl) ELSE {}

Singular(field) == field.rule # "repeated"

(***************************************************************************)
(* C1                                                                      *)
(***************************************************************************)
\* C1: template generation is cut by a depth guard, so it returns on every
\* schema, a message embedding itself included, without ever driving the
\* call stack to exhaustion.
C1_RecursionIsGuarded ==
    templates.state = "resolved" => ~callStack.exhausted

RECURSIVE Addresses(_, _)
\* Walking value segment by segment along path finds a key at every level.
Addresses(value, path) ==
    \/ path = <<>>
    \/ /\ value.t = "object"
       /\ HasKey(value, Head(path))
       /\ Addresses(GetKey(value, Head(path)), Tail(path))

\* C3: every optional path returned for the method addresses a key of the
\* template returned for the same method.
C3_SubsetLaw ==
    Done => \A i \in 1..Len(CallOptionals) :
               Addresses(CallTemplate, CallOptionals[i])

(***************************************************************************)
(* C4                                                                      *)
(***************************************************************************)
\* The field path from the request type down to Outer.
OuterPath(outerPlace) == IF outerPlace = "request" THEN <<>> ELSE <<"o">>

InList(list, path) == \E i \in 1..Len(list) : list[i] = path

\* C4: with Inner { optional string x = 1; } embedded in Outer as a and b,
\* both a.x and b.x are in the optional list of every request type that
\* contains Outer, wherever Inner is declared.  (Read on the layout with
\* every brace on a line of its own at the end of a line.)
C4_TypeKeyed ==
    \A ip \in Places, op \in OuterPlaces :
       (Done /\ file.ast = EmbedProto(ip, op) /\ file.layout = "expanded")
         => /\ InList(CallOptionals, OuterPath(op) \o <<"a", "x">>)
            /\ InList(CallOptionals, OuterPath(op) \o <<"b", "x">>)

(***************************************************************************)
(* C5                                                                      *)
(***************************************************************************)
\* The table of defaults.  In JSON 0.0 is the number 0.
TableTypes ==
    {W(p) : p \in {"string", "bytes", "bool", "int32", "int64", "uint32",
                   "uint64", "sint32", "sint64", "fixed32", "fixed64",
                   "sfixed32", "sfixed64", "float", "double"}}
    \cup {TimestampType}
TableDefault(type) ==
    CASE type \in {W("string"), W("bytes"), TimestampType} -> JStr("")
      [] type = W("bool") -> JFalse
      [] OTHER -> JZero

C6_RepeatedIsEmptyArray ==
    \A o \in TemplateOccurrences :
       o.field.rule = "repeated" => o.value = JArr

\* A repeated field of the enclosing message type itself was generated.
C6_Witness ==
    \E o \in TemplateOccurrences :
       /\ o.field.rule = "repeated"
       /\ o.field.type = W(o.parent.name)
       /\ o.value = JArr

(***************************************************************************)
(* C7                                                                      *)
(***************************************************************************)
EnumOccurrence(o) ==
    Singular(o.field) /\ Declared(o.parent, o.field.type).kind = "enum"

\* C7: every singular enum field holds the name of the first declared
\* value of its enum.
C7_FirstDeclaredValue ==
    \A o \in TemplateOccurrences :
       EnumOccurrence(o)
         => o.value = JStr(Declared(o.parent, o.field.type).items[1].name)

\* An enum field was generated whose first declared value is not the one
\* numbered 0: nested in the message or found by global lookup.
C7_Witness ==
    \E o \in TemplateOccurrences :
       /\ EnumOccurrence(o)
       /\ Declared(o.parent, o.field.type).items[1].num # 0
       /\ o.value = JStr("B")

(***************************************************************************)
(* C8                                                                      *)
(***************************************************************************)
MessageOccurrence(o) ==
    Singular(o.field) /\ Declared(o.parent, o.field.type).kind = "message"

\* generateEmptyJsonTemplate(T), called on its own for the declared message.
TemplateOf(decl) ==
    generateEmptyJsonTemplate(Reflect(<<decl>>)[1], ParsedRoot(file), 0)

Unresolvable(parent, field) ==
    field.type \notin TableTypes /\ Declared(parent, field.type) = Null

RequestFields == fieldsArray(RequestDecl)

\* C9: a field of the request message whose type name resolves to nothing
\* does not make either function fail: both maps have the method, the
\* template has every field of the message, "" for the unresolvable one
\* (when singular) and the table default for the others, and no optional
\* path leads below the field.
C9_UnresolvableNeverRaises ==
    \A i \in 1..Len(RequestFields) :
       Unresolvable(RequestDecl, RequestFields[i])
         => /\ templates.state = "resolved"
               => /\ HasKey(templates.value, "Call")
                  /\ Keys(CallTemplate) = FieldNames(RequestDecl)
                  /\ Singular(RequestFields[i])
                       => GetKey(CallTemplate, RequestFields[i].name) = JStr("")
                  /\ \A j \in 1..Len(RequestFields) :
                        (j # i /\ Singular(RequestFields[j])
                               /\ RequestFields[j].type \in TableTypes)
                          => GetKey(CallTemplate, RequestFields[j].name)
                               = TableDefault(RequestFields[j].type)
            /\ optionals.state = "resolved"
               => /\ HasKey(optionals.value, "Call")
                  /\ \A k \in 1..Len(CallOptionals) :
                        ~(/\ Len(CallOptionals[k]) > 1
                          /\ Head(CallOptionals[k]) = RequestFields[i].name)

\* Both functions have returned on a file whose request message has a
\* singular field of an undeclared type.
C9_Witness ==
    /\ Done
    /\ \E i \in 1..Len(RequestFields) :
          /\ Unresolvable(RequestDecl, RequestFields[i])
          /\ Singular(RequestFields[i])
          /\ GetKey(CallTemplate, RequestFields[i].name) = JStr("")

(***************************************************************************)
(* C10                                                                     *)
(***************************************************************************)
ScenarioTemplate ==
    JObj(<< [k |-> "name", v |-> JStr("")], [k |-> "age", v |-> JZero],
            [k |-> "tags", v |-> JArr], [k |-> "favorite", v |-> JStr("RED")] >>)

\* C10: for the scenario message M the template is {"name": "", "age": 0,
\* "tags": [], "favorite": "RED"} and the optional list is ["age"], in
\* every line layout and with the enum before or after the optional field.
C10_Scenario ==
    \A pos \in EnumPositions :
       (Done /\ file.ast = ScenarioProto(pos))
         => /\ CallTemplate = ScenarioTemplate
            /\ CallOptionals = << <<"age">> >>

(***************************************************************************)
(* C11                                                                     *)
(***************************************************************************)
\* The methods of a file as declared, service after service.
DeclaredMethods(ast) ==
    Flatten([i \in 1..Len(SelectSeq(ast, LAMBDA d : d.kind = "service")) |->
               SelectSeq(ast, LAMBDA d : d.kind = "service")[i].items])

\* The request type of the method is declared nowhere.
BadMethod(rpc) == Declared(Null, rpc.type) = Null

\* The same file with the bad methods left out of their services.
WithoutBadMethods(f) ==
    [f EXCEPT !.ast =
       [i \in 1..Len(f.ast) |->
          IF f.ast[i].kind = "service"
          THEN [f.ast[i] EXCEPT !.items = SelectSeq(@, LAMBDA m : ~BadMethod(m))]
          ELSE f.ast[i]]]

\* The two maps of a file processed on its own.
TemplateMapOf(f) == TemplatesOf(ParsedRoot(f)).val
OptionalMapOf(f) ==
    OptionalsOf(ParsedRoot(f), parseExplicitOptionalFields(ProtoContent(f))).map

BadNames == {DeclaredMethods(file.ast)[i].name :
               i \in {j \in 1..Len(DeclaredMethods(file.ast)) :
                        BadMethod(DeclaredMethods(file.ast)[j])}}

\* A bad method called name is declared after every other method of that
\* name.
LastNamed(name) ==
    \E i \in 1..Len(DeclaredMethods(file.ast)) :
       /\ DeclaredMethods(file.ast)[i].name = name
       /\ BadMethod(DeclaredMethods(file.ast)[i])
       /\ \A j \in (i + 1)..Len(DeclaredMethods(file.ast)) :
             DeclaredMethods(file.ast)[j].name # name

\* C11 as stated: a method whose request type is not found has the entries
\* {} and [], and every other method has the entries it has in the file
\* without the bad method.
C11_BadMethodIsolated ==
    Done =>
      /\ \A name \in BadNames :
            /\ HasKey(templates.value, name) /\ HasKey(optionals.value, name)
            /\ GetKey(templates.value, name) = JObj(<<>>)
            /\ GetKey(optionals.value, name) = <<>>
      /\ \A i \in 1..Len(Keys(TemplateMapOf(WithoutBadMethods(file)))) :
            LET name == Keys(TemplateMapOf(WithoutBadMethods(file)))[i] IN
            /\ GetKey(templates.value, name)
                 = GetKey(TemplateMapOf(WithoutBadMethods(file)), name)
            /\ GetKey(optionals.value, name)
                 = GetKey(OptionalMapOf(WithoutBadMethods(file)), name)

\* C11: a method whose request type is not found is present in both maps,
\* with {} and [] unless a method of the same bare name is visited after
\* it; every method whose bare name is not that of a bad method has the
\* entries it has in the file without the bad method.
C11_BadMethodIsolatedByName ==
    Done =>
      /\ \A name \in BadNames :
            /\ HasKey(templates.value, name) /\ HasKey(optionals.value, name)
            /\ LastNamed(name)
                 => /\ GetKey(templates.value, name) = JObj(<<>>)
                    /\ GetKey(optionals.value, name) = <<>>
      /\ \A i \in 1..Len(Keys(TemplateMapOf(WithoutBadMethods(file)))) :
            LET name == Keys(TemplateMapOf(WithoutBadMethods(file)))[i] IN
            name \notin BadNames
              => /\ HasKey(templates.value, name)
                 /\ HasKey(optionals.value, name)
                 /\ GetKey(templates.value, name)
                      = GetKey(TemplateMapOf(WithoutBadMethods(file)), name)
                 /\ GetKey(optionals.value, name)
                      = GetKey(OptionalMapOf(WithoutBadMethods(file)), name)

\* Both maps were built for a file with a bad method: its entries are {}
\* and [], next to a method with a template and an optional list.
C11_Witness ==
    /\ Done
    /\ \E name \in BadNames :
          /\ GetKey(templates.value, name) = JObj(<<>>)
          /\ GetKey(optionals.value, name) = <<>>
    /\ \E i \in 1..Len(Keys(templates.value)) :
          /\ Keys(templates.value)[i] \notin BadNames
          /\ GetKey(templates.value, Keys(templates.value)[i]) # JObj(<<>>)
          /\ GetKey(optionals.value, Keys(templates.value)[i]) # <<>>

(***************************************************************************)
(* C12                                                                     *)
(***************************************************************************)
ServicesOf(ast) == SelectSeq(ast, LAMBDA d : d.kind = "service")

Declares(service, name) ==
    \E k \in 1..Len(service.items) : service.items[k].name = name

\* The bare method names that two services of the file declare.
CollidingNames ==
    {name \in {DeclaredMethods(file.ast)[i].name :
                 i \in 1..Len(DeclaredMethods(file.ast))} :
       Cardinality({i \in 1..Len(ServicesOf(file.ast)) :
                      Declares(ServicesOf(file.ast)[i], name)}) >= 2}

\* The file with only the last of the services that declare name (first
\* = FALSE), or only the first of them (first = TRUE).
OneServiceOnly(f, name, first) ==
    LET declaring == {i \in 1..Len(f.ast) :
                        f.ast[i].kind = "service" /\ Declares(f.ast[i], name)}
        kept == IF first THEN Min(declaring) ELSE Max(declaring)
    IN [f EXCEPT !.ast =
          SelectSeq([i \in 1..Len(f.ast) |->
                       IF i \in declaring /\ i # kept THEN Null ELSE f.ast[i]],
                    LAMBDA d : d # Null)]

CountKey(map, name) ==
    Cardinality({i \in 1..Len(Keys(map)) : Keys(map)[i] = name})

\* C12: a bare method name declared by two services has exactly one entry
\* in each map, and it is the entry the name has when the service visited
\* last is the only one that declares it.
C12_LastServiceWins ==
    Done =>
      \A name \in CollidingNames :
         /\ CountKey(templates.value, name) = 1
         /\ CountKey(optionals.value, name) = 1
         /\ GetKey(templates.value, name)
              = GetKey(TemplateMapOf(OneServiceOnly(file, name, FALSE)), name)
         /\ GetKey(optionals.value, name)
              = GetKey(OptionalMapOf(OneServiceOnly(file, name, FALSE)), name)

\* Both maps were built for a file where two services declare the same
\* name with request types whose templates and optional lists differ.
C12_Witness ==
    /\ Done
    /\ \E name \in CollidingNames :
          /\ GetKey(templates.value, name)
               # GetKey(TemplateMapOf(OneServiceOnly(file, name, TRUE)), name)
          /\ GetKey(optionals.value, name)
               # GetKey(OptionalMapOf(OneServiceOnly(file, name, TRUE)), name)
          /\ GetKey(templates.value, name) # JObj(<<>>)

(***************************************************************************)
(* C15                                                                     *)
(***************************************************************************)
\* The positions of the keys that equal the name asked for or end with it.
PathHits ==
    {i \in 1..Len(importFiles) :
       importFiles[i].k = asked \/ endsWith(importFiles[i].k, asked)}

\* C15: resolvePath returns the first key, in iteration order, that equals
\* the target or ends with it, and the target itself when there is none,
\* whatever the origin.
C15_ResolvePath ==
    resolvedPath # NotCalled
      => resolvedPath = IF PathHits = {} THEN asked
                        ELSE importFiles[Min(PathHits)].k

\* resolvePath was called on an import set in which two keys end with the
\* target, neither equal to it, and returned the first.
C15_Witness ==
    /\ resolvedPath # NotCalled
    /\ Cardinality(PathHits) = 2
    /\ resolvedPath = importFiles[1].k
    /\ resolvedPath # asked

(***************************************************************************)
(* C16                                                                     *)
(***************************************************************************)
\* The positions of the keys that are a suffix of the name asked for or
\* have its final path component.
NameHits ==
    {i \in 1..Len(importFiles) :
       \/ endsWith(asked, importFiles[i].k)
       \/ basename(importFiles[i].k) = basename(asked)}

\* C16: fetch resolves with the content stored under the key equal to the
\* file name whenever there is one, the empty text included; otherwise
\* with the content of the first key that is a suffix of the name or has
\* its final path component; otherwise it rejects with file-not-found.
C16_Fetch ==
    fetched.state # "pending"
      => IF \E i \in 1..Len(importFiles) : importFiles[i].k = asked
         THEN \E i \in 1..Len(importFiles) :
                 /\ importFiles[i].k = asked
                 /\ fetched = PromiseResolve(importFiles[i].v)
         ELSE IF NameHits # {}
              THEN fetched = PromiseResolve(importFiles[Min(NameHits)].v)
              ELSE fetched = PromiseReject(FileNotFound)

(***************************************************************************)
(* The request handler.                                                    *)
(***************************************************************************)
\* The grammar parser rejects the text of the file.
Rejecting(f) == protobufParse(f).kind = "error"

\* The handler of r has left the try block through catch.
Failed(r) == pc[r] \in {"failed", "cleanedAfterError"}
             \/ (pc[r] = "responded" /\ responses[r].status = 400)

\* C13: when the grammar parser rejects the main file, parseProtoContent
\* and getOptionalFieldsMap each reject with the parser's error and return
\* no map, the handler keeps no map and no services, and its response is
\* 400 with success false, the error message, and neither services nor
\* templates.
C13_SyntaxErrorIsFatal ==
    \A r \in Requests :
       Rejecting(requests[r])
         => /\ TemplatesSettled(protobufParse(requests[r]))
                 = [state |-> "rejected", value |-> Throw("illegal token")]
            /\ OptionalsSettled(protobufParse(requests[r]),
                                ProtoContent(requests[r]))
                 = [state |-> "rejected", value |-> Throw("illegal token")]
            /\ pc[r] \in {"received", "read"} \/ Failed(r)
            /\ pc[r] # "received"
                 => /\ locals[r].methodMap = Absent
                    /\ locals[r].optionalFieldsMap = Absent
                    /\ locals[r].services = Absent
            /\ pc[r] = "responded"
                 => responses[r] =
                      [status |-> 400, success |-> FALSE, services |-> Absent,
                       methodTemplates |-> Absent, optionalFields |-> Absent,
                       error |-> "illegal token"]

\* A request with a rejected main file has been answered, while the other
\* request was served.
C13_Witness ==
    \E r, q \in Requests :
       /\ Rejecting(requests[r])
       /\ pc[r] = "responded"
       /\ responses[r].status = 400
       /\ responses[q].status = 200

(***************************************************************************)
(* C14                                                                     *)
(***************************************************************************)
\* The bare names of the methods the file declares, in any service, inside
\* a package or not.
MethodNames ==
    {DeclaredMethods(file.ast)[i].name : i \in 1..Len(DeclaredMethods(file.ast))}

\* The set of Object.keys(obj).
KeySet(obj) == {obj.kv[i].k : i \in 1..Len(obj.kv)}

\* C14: the map parseProtoContent returns and the map getOptionalFieldsMap
\* returns for the same file each have exactly the bare names of the
\* declared methods as keys, each once, whether the request type of a
\* method resolves or not; so the two maps have the same keys.
C14_SameKeySet ==
    /\ templates.state = "resolved"
         => /\ KeySet(templates.value) = MethodNames
            /\ Len(templates.value.kv) = Cardinality(MethodNames)
    /\ optionals.state = "resolved"
         => /\ KeySet(optionals.value) = MethodNames
            /\ Len(optionals.value.kv) = Cardinality(MethodNames)
    /\ templates.state = "resolved" /\ optionals.state = "resolved"
         => KeySet(templates.value) = KeySet(optionals.value)

\* Both maps were built for a file declaring a method whose request type
\* does not resolve under a name no other method has, next to methods that
\* resolve.
C14_Witness ==
    /\ templates.state = "resolved"
    /\ optionals.state = "resolved"
    /\ \E i \in 1..Len(DeclaredMethods(file.ast)) :
          /\ BadMethod(DeclaredMethods(file.ast)[i])
          /\ \A j \in 1..Len(DeclaredMethods(file.ast)) :
                j # i => DeclaredMethods(file.ast)[j].name
                           # DeclaredMethods(file.ast)[i].name
    /\ \E i \in 1..Len(DeclaredMethods(file.ast)) :
          ~BadMethod(DeclaredMethods(file.ast)[i])
    /\ Cardinality(MethodNames) >= 2

(***************************************************************************)
(* C17                                                                     *)
(***************************************************************************)
\* The services of a file processed on its own.
ServicesAlone(f) ==
    extractServices(nestedArray(Namespace("", ReflectFile(f.ast))), <<"">>,
                    TemplateMapOf(f), OptionalMapOf(f), JObj(<<>>))

\* The response to a request that is the only one the server handles.
Alone(f) ==
    IF Rejecting(f)
    THEN [status |-> 400, success |-> FALSE, services |-> Absent,
          methodTemplates |-> Absent, optionalFields |-> Absent,
          error |-> "illegal token"]
    ELSE [status |-> 200, success |-> TRUE, services |-> ServicesAlone(f),
          methodTemplates |-> TemplateMapOf(f),
          optionalFields |-> OptionalMapOf(f), error |-> ""]

\* What the handler of r holds comes from the files of r.
OwnState(r) ==
    /\ locals[r].mainContent \in {NoFile, requests[r]}
    /\ \A i \in 1..Len(locals[r].uploadedFiles) :
          locals[r].uploadedFiles[i].v = requests[r]
    /\ locals[r].methodMap \in {Absent, TemplateMapOf(requests[r])}
    /\ locals[r].optionalFieldsMap \in {Absent, OptionalMapOf(requests[r])}
    /\ locals[r].services \in {Absent, ServicesAlone(requests[r])}

\* C17: however the handlers of two requests interleave at their awaits,
\* the import map, the template map, the optional map and the services a
\* handler holds are built from its own upload, and the response to each
\* request is the response it gets when it is the only request.
C17_RequestsAreIsolated ==
    \A r \in Requests :
       /\ OwnState(r)
       /\ pc[r] = "responded" => responses[r] = Alone(requests[r])
       /\ pc[r] # "responded" => responses[r] = NoResponse

\* A request was answered with its catalog while the handler of another
\* request, for a different file, holds a different template map and waits
\* for its optional map.
C17_Witness ==
    \E r, q \in Requests :
       /\ requests[r] # requests[q]
       /\ pc[r] = "responded"
       /\ responses[r].status = 200
       /\ pc[q] = "templates"
       /\ locals[q].methodMap # responses[r].methodTemplates

(***************************************************************************)
(* C18                                                                     *)
(***************************************************************************)
\* C18: the second call of generateEmptyJsonTemplate on a message type
\* returns a template structurally identical to the one the first call
\* returned, and the root is as the parser left it.
C18_Idempotent ==
    secondCall.state = "returned"
      => /\ secondCall.value = firstCall.value
         /\ schema = ParsedRoot(file)

\* The part of C18 that holds: two calls that start with the same frames
\* on the stack, or on a type whose template is complete within the stack,
\* return the same template, and the root is never changed.
C18_SameStackSameTemplate ==
    /\ schema = ParsedRoot(file)
    /\ secondCall.state = "returned"
       /\ (secondCall.frames = firstCall.frames
           \/ Nesting(firstCall.value) + firstCall.frames < StackLimit - 1)
         => secondCall.value = firstCall.value

(***************************************************************************)
(* C19                                                                     *)
(***************************************************************************)
RECURSIVE EmbeddedMessages(_, _, _)
\* Every place where a template holds an object for a message-typed field:
\* the path of field names down to it and the message type generated there.
EmbeddedMessages(template, decl, path) ==
    LET fields == fieldsArray(decl)
        here == {[path |-> path \o <<fields[i].name>>,
                  type |-> Declared(decl, fields[i].type),
                  value |-> GetKey(template, fields[i].name)] :
                   i \in {j \in 1..Len(fields) :
                            /\ HasKey(template, fields[j].name)
                            /\ GetKey(template, fields[j].name).t = "object"
                            /\ Declared(decl, fields[j].type).kind = "message"}}
    IN here \cup UNION {EmbeddedMessages(o.value, o.type, o.path) : o \in here}

\* The fields a message declares with the optional qualifier.
OptionalFieldsOf(decl) ==
    {fieldsArray(decl)[i].name :
       i \in {j \in 1..Len(fieldsArray(decl)) :
                fieldsArray(decl)[j].rule = "optional"}}

\* C19: wherever the template of the method holds a nested object for a
\* message-typed field, the extractor went into the same message type
\* under the same path: every field that type declares optional and the
\* template holds there is in the optional list, under that path, whether
\* the type was found nested in the current message or by global lookup.
C19_SameResolution ==
    Done => \A o \in EmbeddedMessages(CallTemplate, RequestDecl, <<>>) :
               \A name \in OptionalFieldsOf(o.type) :
                  HasKey(o.value, name)
                    => InList(CallOptionals, o.path \o <<name>>)

\* The part of C19 that the code has: a type nested directly in the
\* message that embeds it (expanded layout, Outer the request type).
C19_NestedOnly ==
    (Done /\ file.ast = EmbedProto("nested", "request")
          /\ file.layout = "expanded")
      => /\ EmbeddedMessages(CallTemplate, RequestDecl, <<>>) # {}
         /\ \A o \in EmbeddedMessages(CallTemplate, RequestDecl, <<>>) :
               InList(CallOptionals, o.path \o <<"x">>)

(***************************************************************************)
(* C20                                                                     *)
(***************************************************************************)
RECURSIVE ExplicitOptionalPaths(_, _)
\* For every field declared optional among items, the names of the
\* messages that lexically enclose it, outermost first, then its name.
ExplicitOptionalPaths(items, chain) ==
    UNION {CASE items[i].kind = "field" /\ items[i].rule = "optional" ->
                  {chain \o <<items[i].name>>}
             [] items[i].kind = "message" ->
                  ExplicitOptionalPaths(items[i].items,
                                        chain \o <<items[i].name>>)
             [] OTHER -> {}
           : i \in 1..Len(items)}

\* C20: on a source with every declaration and every brace on a line of
\* its own, parseExplicitOptionalFields returns exactly the paths
\* <enclosing messages>.<field> of the fields declared optional, whatever
\* enum, nested message or service closes before the field.
C20_LexicalPaths ==
    (optionals.state = "resolved" /\ file.layout = "expanded")
      => parseExplicitOptionalFields(ProtoContent(file))
           = ExplicitOptionalPaths(file.ast, <<>>)

\* The part of C20 that the code has: an optional field that no closing
\* brace precedes inside its message is recorded under the enclosing chain.
C20_BeforeAnyClose ==
    (optionals.state = "resolved" /\ file.layout = "expanded"
       /\ file.ast = ScenarioProto("asWritten"))
      => parseExplicitOptionalFields(ProtoContent(file))
           = {<<"M", "age">>, <<"Other", "id">>}

(***************************************************************************)
(* C21                                                                     *)
(***************************************************************************)
\* The value a singular field takes from the declaration its type name
\* resolved to: the template of a message (cut to "" where the stack ran
\* out), the first value of an enum.
ValueFrom(decl, value) ==
    IF decl.kind = "message"
    THEN \/ value = JStr("")
         \/ value.t = "object" /\ Keys(value) = FieldNames(decl)
    ELSE value = JStr(decl.items[1].name)

\* C21: a singular field whose type is a one-word name that is not a
\* primitive takes its value from the message or enum of that name nested
\* directly in the current message when there is one, whatever else has
\* that name in the file; otherwise from the top-level message of that
\* name, otherwise from the top-level enum, otherwise it is "".
C21_NestedShadowsGlobal ==
    \A o \in TemplateOccurrences :
       (Singular(o.field) /\ Len(o.field.type) = 1
          /\ o.field.type \notin TableTypes)
         => IF DeclNamed(o.parent.items, o.field.type[1]) # Null
            THEN ValueFrom(DeclNamed(o.parent.items, o.field.type[1]), o.value)
            ELSE IF DeclNamed(file.ast, o.field.type[1]) # Null
            THEN ValueFrom(DeclNamed(file.ast, o.field.type[1]), o.value)
            ELSE o.value = JStr("")

\* A template was generated for a message with a nested message Dup, beside
\* a top-level enum or message Dup: the field holds the nested one's
\* template.
C21_Witness ==
    /\ templates.state = "resolved"
    /\ \E gk \in DupKinds : file.ast = ShadowProto("message", gk, "")
    /\ CallTemplate = JObj(<< [k |-> "f",
                               v |-> JObj(<< [k |-> "n", v |-> JStr("")] >>)] >>)

(***************************************************************************)
(* C22                                                                     *)
(***************************************************************************)
\* The methods called Call, as declared.
CallMethods == SelectSeq(DeclaredMethods(file.ast), LAMBDA rpc : rpc.name = "Call")

\* The message whose optional list the key Call holds: the request type of
\* the last method of that name.
ListedDecl == DeclNamed(file.ast, CallMethods[Len(CallMethods)].type[1])

RECURSIVE FieldPaths(_, _, _)
\* The chains of field names below a message, depth first in declaration
\* order: a field, then the chains through its message type, then the next
\* field; fuel bounds the chains of a type that reaches itself.
FieldPaths(decl, prefix, fuel) ==
    IF fuel = 0 THEN <<>>
    ELSE Flatten([i \in 1..Len(fieldsArray(decl)) |->
           << prefix \o <<fieldsArray(decl)[i].name>> >>
           \o (IF Declared(decl, fieldsArray(decl)[i].type).kind = "message"
               THEN FieldPaths(Declared(decl, fieldsArray(decl)[i].type),
                               prefix \o <<fieldsArray(decl)[i].name>>,
                               fuel - 1)
               ELSE <<>>)])

\* Where path stands in seq; 0 when it is not there.
PositionIn(seq, path) ==
    IF \E i \in 1..Len(seq) : seq[i] = path
    THEN Min({i \in 1..Len(seq) : seq[i] = path}) ELSE 0

\* C22: the optional list of a method has no path twice, every path is a
\* chain of field names from the request message down, and the paths stand
\* in depth-first declaration order.
C22_DepthFirstFieldPaths ==
    (optionals.state = "resolved" /\ CallMethods # <<>>)
      => /\ \A i, j \in 1..Len(CallOptionals) :
               i < j => CallOptionals[i] # CallOptionals[j]
         /\ \A i \in 1..Len(CallOptionals) :
               PositionIn(FieldPaths(ListedDecl, <<>>, StackLimit + 1),
                          CallOptionals[i]) > 0
         /\ \A i, j \in 1..Len(CallOptionals) :
               i < j => PositionIn(FieldPaths(ListedDecl, <<>>, StackLimit + 1),
                                   CallOptionals[i])
                        < PositionIn(FieldPaths(ListedDecl, <<>>, StackLimit + 1),
                                     CallOptionals[j])

\* The list of a request with an optional field of a nested message type
\* that has an optional field itself: the field, then the field inside it.
C22_Witness ==
    /\ optionals.state = "resolved"
    /\ CallOptionals = << <<"s">>, <<"s", "back">> >>

(***************************************************************************)
(* C23                                                                     *)
(***************************************************************************)
\* The template and the optional list computed from the request type the
\* method declares, in the file f it is declared in.
OwnTemplate(f, rpc) == MethodTemplate(ParsedRoot(f), rpc).val
OwnOptionalFields(f, rpc) ==
    MethodOptionalFields(ParsedRoot(f), rpc,
                         parseExplicitOptionalFields(ProtoContent(f))).list

\* The entry services[S].methods[m] of a response.
MethodEntryOf(response, service, rpc) ==
    GetKey(GetKey(response.services, service.name).methods, rpc.name)

\* C23: in a response, every entry services[S].methods[m] carries the
\* template and the optional list of the request type S declares for m,
\* also when another service declares a method m with another request type.
C23_OwnRequestType ==
    \A r \in Requests :
       (pc[r] = "responded" /\ responses[r].status = 200)
         => \A i \in 1..Len(ServicesOf(requests[r].ast)) :
               \A j \in 1..Len(ServicesOf(requests[r].ast)[i].items) :
                  /\ MethodEntryOf(responses[r], ServicesOf(requests[r].ast)[i],
                                   ServicesOf(requests[r].ast)[i].items[j]).jsonTemplate
                       = OwnTemplate(requests[r],
                                     ServicesOf(requests[r].ast)[i].items[j])
                  /\ MethodEntryOf(responses[r], ServicesOf(requests[r].ast)[i],
                                   ServicesOf(requests[r].ast)[i].items[j]).optionalFields
                       = OwnOptionalFields(requests[r],
                                           ServicesOf(requests[r].ast)[i].items[j])

\* The part of C23 that the code has: the entry of a method whose bare name
\* no other method of the upload has.
C23_OwnRequestTypeUnlessShared ==
    \A r \in Requests :
       (pc[r] = "responded" /\ responses[r].status = 200)
         => \A i \in 1..Len(ServicesOf(requests[r].ast)) :
               \A j \in 1..Len(ServicesOf(requests[r].ast)[i].items) :
                  Len(SelectSeq(DeclaredMethods(requests[r].ast),
                                LAMBDA rpc : rpc.name
                                   = ServicesOf(requests[r].ast)[i].items[j].name)) = 1
                    => MethodEntryOf(responses[r], ServicesOf(requests[r].ast)[i],
                                     ServicesOf(requests[r].ast)[i].items[j]).jsonTemplate
                         = OwnTemplate(requests[r],
                                       ServicesOf(requests[r].ast)[i].items[j])

(***************************************************************************)
(* C24                                                                     *)
(***************************************************************************)
\* The response of the handler to a form, whatever became of the temporary
\* files: the error of the missing main file, else the response to the file.
HandlerResponse(kind, f) ==
    IF kind = "none"
    THEN [status |-> 400, success |-> FALSE, services |-> Absent,
          methodTemplates |-> Absent, optionalFields |-> Absent,
          error |-> "No proto file uploaded"]
    ELSE Alone(f)

\* The request was answered 200 with success true, or 400 with success
\* false and an error message.
AnsweredByHandler(r) ==
    \/ responses[r].status = 200 /\ responses[r].success
    \/ /\ responses[r].status = 400
       /\ ~responses[r].success
       /\ responses[r].error # ""

\* At most one response was sent, none before the handler is through.
OneResponse(r) ==
    /\ sent[r] <= 1
    /\ sent[r] = 1 <=> pc[r] = "responded"

\* fs.unlink was called for every temporary file of the request.
AllUnlinked(r) == unlinked[r] = FilesOf(form[r])

\* C24 as stated: every request is answered exactly once, 200 with success
\* true or 400 with success false and an error message, after fs.unlink
\* was called for each of its temporary files, and the response does not
\* depend on whether the removals succeeded.
C24_EveryRequestAnswered ==
    \A r \in Requests :
       /\ OneResponse(r)
       /\ pc[r] = "responded"
            => /\ AnsweredByHandler(r)
               /\ AllUnlinked(r)
               /\ responses[r] = HandlerResponse(form[r], requests[r])

\* C24: every request is answered, exactly once.  A request that reaches
\* the handler (its files, if any, are in the field protoFiles) is answered
\* 200 with success true or 400 with success false and an error message,
\* "No proto file uploaded" when there is no file, after fs.unlink was
\* called for each of its temporary files, and with the same response
\* whether the removals succeeded or not.  A request with a file in another
\* field is answered 500 by the framework, without the handler.
C24_EveryHandledRequestAnswered ==
    /\ [](\A r \in Requests :
            /\ OneResponse(r)
            /\ pc[r] = "responded"
                 => IF form[r] = "otherField"
                    THEN responses[r].status = 500
                    ELSE /\ AnsweredByHandler(r)
                         /\ AllUnlinked(r)
                         /\ responses[r] = HandlerResponse(form[r], requests[r]))
    /\ \A r \in Requests : <>(pc[r] = "responded")

\* A request with two files was answered 400 after both removals were
\* attempted and one failed, and a request without a file was answered.
C24_Witness ==
    \E r, q \in Requests :
       /\ form[r] = "two"
       /\ pc[r] = "responded"
       /\ responses[r].status = 400
       /\ unlinked[r] = {1, 2}
       /\ tempFiles[r] = {2}
       /\ form[q] = "none"
       /\ pc[q] = "responded"
       /\ responses[q].error = "No proto file uploaded"

=============================================================================
